---- MODULE Spec2Model ----
(***************************************************************************)
(* Model of pyzoo/zoo/orca/data/pandas/preprocessing.py: read_csv and      *)
(* read_json, both of which run read_file_spark.  One call is followed     *)
(* statement group by statement group; pc is the position in the function. *)
(*                                                                         *)
(* The keyword arguments of the call are arbitrary but fixed by the        *)
(* caller.  mangle_dupe_cols and parse_dates are in kwargs from the entry  *)
(* point on; the model reveals each other argument in the step that first  *)
(* tests its value, which yields the same runs as choosing them all up     *)
(* front.                                                                  *)
(***************************************************************************)
EXTENDS Integers, Sequences, FiniteSets, TLC

VARIABLES pc, backend, file_path, file_type, prefix, node_num, core_num,
          file_paths, kwargs, names, header, usecols, cols, missing, dtype,
          squeeze, index_col, df, calls, result, err

vars == <<pc, backend, file_path, file_type, prefix, node_num, core_num,
          file_paths, kwargs, names, header, usecols, cols, missing, dtype,
          squeeze, index_col, df, calls, result, err>>

-----------------------------------------------------------------------------
(* Bounds of the model.                                                    *)

\* columns of every data file
NumCols == 3
\* longest usecols list
MaxUsecols == 2
\* longest file_path list
MaxPathList == 2
\* most nodes get_node_and_core_number may report
MaxNodes == 2
\* cores per node get_node_and_core_number reports
CoresPerNode == 2
\* partitions the engine may choose when it loads the files
MaxParts == 2

-----------------------------------------------------------------------------
(* Python values.  A scalar is a tagged record, so that values of          *)
(* different Python types can be compared.                                 *)

PyNone == [t |-> "none", i |-> 0, s |-> ""]
PyInt(n) == [t |-> "int", i |-> n, s |-> ""]
PyBool(b) == [t |-> "bool", i |-> IF b THEN 1 ELSE 0, s |-> ""]
PyStr(x) == [t |-> "str", i |-> 0, s |-> x]
\* a key that is not in kwargs
Absent == [t |-> "absent", i |-> 0, s |-> ""]

\* Python's ==: bool is a subclass of int, so False == 0 and True == 1
PyEq(a, b) ==
    IF a.t \in {"int", "bool"} /\ b.t \in {"int", "bool"}
    THEN a.i = b.i
    ELSE a = b

\* Python's truth value of a scalar
Truthy(v) ==
    CASE v.t \in {"none", "absent"} -> FALSE
      [] v.t \in {"int", "bool"} -> v.i # 0
      [] OTHER -> v.s # ""

Range(s) == {s[k] : k \in 1..Len(s)}

\* the elements of s that satisfy Test, in the order of s
RECURSIVE SelectIdx(_, _)
SelectIdx(s, keep) ==
    IF s = <<>> THEN <<>>
    ELSE LET n == Len(s)
             front == SelectIdx(SubSeq(s, 1, n - 1), keep)
         IN IF n \in keep THEN Append(front, s[n]) ELSE front

\* str(i) for the small integers the model needs
Digits == <<"0", "1", "2", "3", "4", "5", "6", "7", "8", "9">>
IntStr(i) == Digits[i + 1]

-----------------------------------------------------------------------------
(* The environment: the file system seen by the path resolver and the      *)
(* data files seen by the engine's readers.                                *)

\* A path is its URI scheme ("" when it has none) and the rest.
LocalDir == [scheme |-> "", rest |-> "/data/dir"]
HdfsFile == [scheme |-> "hdfs", rest |-> "nn/data/part"]
S3File == [scheme |-> "s3", rest |-> "bucket/part"]
NoMatch == [scheme |-> "", rest |-> "/data/empty"]
Paths == {LocalDir, HdfsFile, S3File, NoMatch}

\* file_path.split("://")[0]
SplitPrefix(p) == IF p.scheme = "" THEN p.rest ELSE p.scheme

\* extract_one_path(path, file_type, os.environ): the files under path
\* with the file-type suffix
extract_one_path(p, ftype) ==
    CASE p = LocalDir -> <<[dir |-> "/data/dir", name |-> "p0", ext |-> ftype],
                           [dir |-> "/data/dir", name |-> "p1", ext |-> ftype]>>
      [] p = HdfsFile -> <<[dir |-> "hdfs://nn/data", name |-> "part", ext |-> ftype]>>
      [] p = S3File -> <<[dir |-> "s3://bucket", name |-> "part", ext |-> ftype]>>
      [] OTHER -> <<>>

\* The header row of each csv file, the keys of each json record.
ColumnPool == <<"a", "b", "c", "d", "e">>
FileColumns == SubSeq(ColumnPool, 1, NumCols)
\* the type the engine infers for the k-th column
InferredType(k) == IF k % 2 = 1 THEN "int" ELSE "string"

Field(n, ty) == [name |-> n, type |-> ty]
ColNames(schema) == [k \in 1..Len(schema) |-> schema[k].name]

\* spark.read.csv names the columns of a file read without a header row
\* _c0, _c1, ...
DefaultColumn(k) ==
    CASE k = 0 -> "_c0" [] k = 1 -> "_c1" [] k = 2 -> "_c2"
      [] k = 3 -> "_c3" [] OTHER -> "_c4"

\* The one DDL schema string a caller may pass as names: it declares
\* NumCols columns of type long.
RenamePool == <<"x", "y", "z", "w", "v">>
NewNames == SubSeq(RenamePool, 1, NumCols)
DdlString == PyStr("ddl")
DdlSchema == [k \in 1..NumCols |-> Field(NewNames[k], "long")]

\* every column name that can occur
Universe ==
    Range(ColumnPool) \cup Range(RenamePool) \cup Range(Digits)
        \cup {DefaultColumn(k) : k \in 0..4}

-----------------------------------------------------------------------------
(* The arguments a call may be given.                                      *)

\* file_path: one path, or a list of paths
FilePathArgs ==
    {[t |-> "str", l |-> <<p>>] : p \in Paths}
        \cup {[t |-> "list", l |-> l] :
                l \in UNION {[1..n -> Paths] : n \in 0..MaxPathList}}

\* a local variable that is bound but whose value no statement has tested
Unread == [t |-> "unread", l |-> <<>>]

\* names: None, a DDL string, or a list of names
NamesNone == [t |-> "none", l |-> <<>>]
Reversed(l) == [k \in 1..Len(l) |-> l[Len(l) + 1 - k]]
NamesLists ==
    {NewNames, Reversed(NewNames),
     \* a duplicate, at the right length and at a wrong one
     [NewNames EXCEPT ![NumCols] = NewNames[1]], <<"x", "x">>,
     \* too few and too many distinct names
     SubSeq(NewNames, 1, NumCols - 1), Append(NewNames, "u")}
NamesArgs ==
    {NamesNone, [t |-> "str", l |-> <<>>]}
        \cup {[t |-> "list", l |-> l] : l \in NamesLists}

\* usecols: None, a callable (the set of names it accepts), or a list
UsecolsArg(t, ints, strs, acc) == [t |-> t, ints |-> ints, strs |-> strs, acc |-> acc]
UsecolsUnread == UsecolsArg("unread", <<>>, <<>>, {})
UsecolsNone == UsecolsArg("none", <<>>, <<>>, {})
Positions == (-1)..NumCols
UsecolsLabels == {"a", "b", "x"}
UsecolsArgs ==
    {UsecolsNone}
        \cup {UsecolsArg("callable", <<>>, <<>>, acc) : acc \in {{}, {"a", "x", "0"}, Universe}}
        \cup {UsecolsArg("list", l, <<>>, {}) :
                l \in UNION {[1..n -> Positions] : n \in 0..MaxUsecols}}
        \cup {UsecolsArg("list", <<>>, l, {}) :
                l \in UNION {[1..n -> UsecolsLabels] : n \in 1..MaxUsecols}}
        \cup {UsecolsArg("list", <<0>>, <<"a">>, {})}

\* dtype: None, one type, or a dict (a set of items with distinct keys)
DtypeArg(t, single, items) == [t |-> t, single |-> single, items |-> items]
DtypeUnread == DtypeArg("unread", "", {})
DtypeNone == DtypeArg("none", "", {})
DtypeKeys == {"a", "x"}
DtypeArgs ==
    {DtypeNone, DtypeArg("single", "string", {})}
        \cup {DtypeArg("dict", "", {[col |-> c, type |-> "double"] : c \in S}) :
                S \in SUBSET DtypeKeys}

FlagArgs == {Absent, PyBool(TRUE), PyBool(FALSE)}
HeaderArgs == {Absent, PyStr("infer"), PyInt(0), PyNone, PyBool(FALSE), PyInt(1)}
CommentArgs == {Absent, PyStr("#"), PyStr("##"), PyInt(1)}
QuoteArgs == {Absent, PyStr("'")}
IndexColArgs == {Absent, PyNone, PyInt(0), PyInt(1), PyStr("a"), PyStr("x")}

\* len() of the strings that occur as comment
PyLen(v) == CASE v.s = "" -> 0 [] v.s = "##" -> 2 [] OTHER -> 1

-----------------------------------------------------------------------------
(* State after construction: no call in progress.                          *)

NoKwargs ==
    [mangle_dupe_cols |-> Absent, parse_dates |-> Absent, header |-> Absent,
     inferSchema |-> Absent, schema |-> Absent, quote |-> Absent,
     escape |-> Absent, comment |-> Absent]
NoDf == [schema |-> <<>>, parts |-> 0]
NoFrame == [kind |-> "none", columns |-> <<>>, types |-> <<>>, index |-> ""]
NoResult == [kind |-> "none", parts |-> 0, loader |-> "", frame |-> NoFrame]
NoErr == [kind |-> "", ints |-> <<>>, strs |-> <<>>]
NoMissing == [ints |-> <<>>, strs |-> <<>>]
Error(kind, ints, strs) == [kind |-> kind, ints |-> ints, strs |-> strs]

\* ZooContext.orca_pandas_read_backend is process-wide and set before the call
Init ==
    /\ pc = "idle"
    /\ backend \in {"pandas", "spark"}
    /\ file_path = [t |-> "str", l |-> <<>>]
    /\ file_type = ""
    /\ prefix = ""
    /\ node_num = 0
    /\ core_num = 0
    /\ file_paths = <<>>
    /\ kwargs = NoKwargs
    /\ names = Unread
    /\ header = Absent
    /\ usecols = UsecolsUnread
    /\ cols = <<>>
    /\ missing = NoMissing
    /\ dtype = DtypeUnread
    /\ squeeze = Absent
    /\ index_col = Absent
    /\ df = NoDf
    /\ calls = <<>>
    /\ result = NoResult
    /\ err = NoErr

Raise(e) == pc' = "error" /\ err' = e
Called(op) == \E k \in 1..Len(calls) : calls[k] = op

-----------------------------------------------------------------------------
(* read_csv, read_json: the entry points.                                  *)

read_csv ==
    /\ pc = "idle"
    /\ \E fp \in FilePathArgs : file_path' = fp
    /\ \E m \in FlagArgs, d \in FlagArgs :
          kwargs' = [kwargs EXCEPT !.mangle_dupe_cols = m, !.parse_dates = d]
    /\ file_type' = "csv"
    /\ pc' = "start"
    /\ UNCHANGED <<backend, prefix, node_num, core_num, file_paths, names,
                   header, usecols, cols, missing, dtype, squeeze, index_col, df,
                   calls, result, err>>

read_json ==
    /\ pc = "idle"
    /\ \E fp \in FilePathArgs : file_path' = fp
    /\ \E m \in FlagArgs, d \in FlagArgs :
          kwargs' = [kwargs EXCEPT !.mangle_dupe_cols = m, !.parse_dates = d]
    /\ file_type' = "json"
    /\ pc' = "start"
    /\ UNCHANGED <<backend, prefix, node_num, core_num, file_paths, names,
                   header, usecols, cols, missing, dtype, squeeze, index_col, df,
                   calls, result, err>>

\* read_file_spark, lines 48-51: the context, the URI prefix, the cluster size.
\* A list has no split method.
CanSplit(fp) == fp.t = "str"

InitContext ==
    /\ pc = "start"
    /\ calls' = Append(calls, "init_nncontext")
    /\ IF CanSplit(file_path)
       THEN /\ prefix' = SplitPrefix(file_path.l[1])
            /\ \E n \in 1..MaxNodes : node_num' = n
            /\ core_num' = CoresPerNode
            /\ pc' = "resolve"
            /\ err' = err
       ELSE /\ Raise(Error("AttributeError", <<>>, <<>>))
            /\ UNCHANGED <<prefix, node_num, core_num>>
    /\ UNCHANGED <<backend, file_path, file_type, file_paths, kwargs, names, header,
                   usecols, cols, missing, dtype, squeeze, index_col, df, result>>

\* lines 53-57: the resolved files of one path, or of each path of a list in turn
RECURSIVE ExtractAll(_, _)
ExtractAll(l, ftype) ==
    IF l = <<>> THEN <<>>
    ELSE extract_one_path(Head(l), ftype) \o ExtractAll(Tail(l), ftype)

ResolvedFiles(fp, ftype) ==
    IF fp.t = "list" THEN ExtractAll(fp.l, ftype)
    ELSE extract_one_path(fp.l[1], ftype)

\* IsEmptyResolution with the emptiness test left out
IsEmptyResolution_NoTest(fps) == FALSE

\* line 59: not file_paths
IsEmptyResolution(fps) == fps = <<>>

\* lines 53-60
ResolvePaths ==
    /\ pc = "resolve"
    /\ file_paths' = ResolvedFiles(file_path, file_type)
    /\ calls' = Append(calls, "extract_one_path")
    /\ IF IsEmptyResolution(file_paths')
       THEN Raise(Error("InvalidPath", <<>>, <<>>))
       ELSE pc' = "backend" /\ err' = err
    /\ UNCHANGED <<backend, file_path, file_type, prefix, node_num, core_num, kwargs,
                   names, header, usecols, cols, missing, dtype, squeeze, index_col,
                   df, result>>

\* lines 68-80: the per-file loader chosen by the URI prefix
PandasLoader(pre) ==
    CASE pre = "hdfs" -> "read_pd_hdfs_file_list"
      [] pre = "s3" -> "read_pd_s3_file_list"
      [] OTHER -> "read_pd_file"

\* lines 63-65
NumPartitions(num_files, total_cores) ==
    IF num_files < total_cores THEN num_files ELSE total_cores

\* lines 62-80 and 215-216: the pandas backend
PandasBackend ==
    /\ pc = "backend"
    /\ backend = "pandas"
    /\ calls' = calls \o <<"parallelize", "mapPartitions">>
    /\ result' = [kind |-> "shards",
                  parts |-> NumPartitions(Len(file_paths), node_num * core_num),
                  loader |-> PandasLoader(prefix),
                  frame |-> [NoFrame EXCEPT !.kind = "file"]]
    /\ pc' = "done"
    /\ UNCHANGED <<backend, file_path, file_type, prefix, node_num, core_num,
                   file_paths, kwargs, names, header, usecols, cols, missing, dtype,
                   squeeze, index_col, df, err>>

-----------------------------------------------------------------------------
(* The Spark backend, lines 81-213.                                        *)

\* line 94: assert kwargs["mangle_dupe_cols"]
MangleDupeColsValid(v) == Truthy(v)
\* line 97: assert not kwargs["parse_dates"]
ParseDatesValid(v) == ~Truthy(v)

\* lines 82-114: the file-type assertion, the two rejected options, and the
\* options taken out of kwargs into locals
SparkValidate ==
    /\ pc = "backend"
    /\ backend # "pandas"
    /\ file_type \in {"json", "csv"}
    /\ IF kwargs.mangle_dupe_cols # Absent /\ ~MangleDupeColsValid(kwargs.mangle_dupe_cols)
       THEN /\ kwargs' = kwargs
            /\ Raise(Error("MangleDupeCols", <<>>, <<>>))
       ELSE IF kwargs.parse_dates # Absent /\ ~ParseDatesValid(kwargs.parse_dates)
       THEN /\ kwargs' = [kwargs EXCEPT !.mangle_dupe_cols = Absent]
            /\ Raise(Error("ParseDates", <<>>, <<>>))
       ELSE /\ kwargs' = [kwargs EXCEPT !.mangle_dupe_cols = Absent,
                                        !.parse_dates = Absent]
            /\ pc' = IF file_type = "csv" THEN "csv_header" ELSE "read_json"
            /\ err' = err
    /\ UNCHANGED <<backend, file_path, file_type, prefix, node_num, core_num,
                   file_paths, names, header, usecols, cols, missing, dtype,
                   squeeze, index_col, df, calls, result>>

\* lines 116-121: the header argument as given, and the schema shortcut
CsvGetHeader ==
    /\ pc = "csv_header"
    /\ \E h \in HeaderArgs, n \in NamesArgs :
          /\ header' = IF h = Absent THEN PyStr("infer") ELSE h
          /\ names' = n
          /\ kwargs' = [kwargs EXCEPT !.inferSchema = PyBool(TRUE),
                                      !.header = h,
                                      !.schema = IF n.t = "str" THEN DdlString ELSE @]
    /\ pc' = "csv_flag"
    /\ UNCHANGED <<backend, file_path, file_type, prefix, node_num, core_num,
                   file_paths, usecols, cols, missing, dtype, squeeze, index_col,
                   df, calls, result, err>>

\* lines 122-123: header == "infer" becomes 0 without names, None with names
InferHeader(h, n) ==
    IF PyEq(h, PyStr("infer"))
    THEN (IF n.t = "none" THEN PyInt(0) ELSE PyNone)
    ELSE h

\* lines 124-129: the engine's header flag, or Absent for an unknown header
HeaderFlag(h) ==
    IF PyEq(h, PyInt(0)) THEN PyBool(TRUE)
    ELSE IF h = PyNone THEN PyBool(FALSE)
    ELSE Absent

\* lines 122-129
CsvHeaderFlag ==
    /\ pc = "csv_flag"
    /\ header' = InferHeader(header, names)
    /\ IF HeaderFlag(header') = Absent
       THEN Raise(Error("UnknownHeader", <<>>, <<>>)) /\ kwargs' = kwargs
       ELSE /\ kwargs' = [kwargs EXCEPT !.header = HeaderFlag(header')]
            /\ pc' = "csv_quote"
            /\ err' = err
    /\ UNCHANGED <<backend, file_path, file_type, prefix, node_num, core_num,
                   file_paths, names, usecols, cols, missing, dtype, squeeze,
                   index_col, df, calls, result>>

\* CommentValid without the length test
CommentValid_AnyString(c) == c.t = "str"

\* line 141: isinstance(comment, str) and len(comment) == 1
CommentValid(c) == c.t = "str" /\ PyLen(c) = 1

\* lines 130-142: quotechar and escapechar moved to the keys quote and
\* escape, comment checked
CsvQuoteComment ==
    /\ pc = "csv_quote"
    /\ \E q \in QuoteArgs, e \in QuoteArgs, c \in CommentArgs :
          /\ kwargs' = [kwargs EXCEPT !.quote = q, !.escape = e, !.comment = c]
          /\ IF c # Absent /\ ~CommentValid(c)
             THEN Raise(Error("CommentLength", <<>>, <<>>))
             ELSE pc' = "read_csv" /\ err' = err
    /\ UNCHANGED <<backend, file_path, file_type, prefix, node_num, core_num,
                   file_paths, names, header, usecols, cols, missing, dtype,
                   squeeze, index_col, df, calls, result>>

\* spark.read.csv(file_paths, **kwargs): the schema string's columns when a
\* schema is given, else the header row's names, else _c0, _c1, ...
CsvSchema(kw) ==
    IF kw.schema # Absent THEN DdlSchema
    ELSE [k \in 1..NumCols |->
            Field(IF Truthy(kw.header) THEN FileColumns[k] ELSE DefaultColumn(k - 1),
                  InferredType(k))]

\* lines 145-146: every column renamed to its zero-based position
PositionalLabels(schema) ==
    [k \in 1..Len(schema) |-> Field(IntStr(k - 1), schema[k].type)]

\* lines 143-146.  No statement reads kwargs after the reader call, so the
\* model forgets it there.
ReadCsvFiles ==
    /\ pc = "read_csv"
    /\ \E n \in 1..MaxParts :
          df' = [schema |-> IF header = PyNone
                            THEN PositionalLabels(CsvSchema(kwargs))
                            ELSE CsvSchema(kwargs),
                 parts |-> n]
    /\ calls' = IF header = PyNone
                THEN calls \o <<"read.csv", "selectExpr">>
                ELSE Append(calls, "read.csv")
    /\ kwargs' = NoKwargs
    /\ pc' = "names"
    /\ UNCHANGED <<backend, file_path, file_type, prefix, node_num, core_num,
                   file_paths, names, header, usecols, cols, missing, dtype,
                   squeeze, index_col, result, err>>

\* spark.read.json(file_paths, **kwargs): the keys of the records
JsonSchema == [k \in 1..NumCols |-> Field(FileColumns[k], InferredType(k))]

\* line 148
ReadJsonFiles ==
    /\ pc = "read_json"
    /\ \E n \in 1..MaxParts : df' = [schema |-> JsonSchema, parts |-> n]
    /\ calls' = Append(calls, "read.json")
    /\ kwargs' = NoKwargs
    /\ pc' = "names"
    /\ UNCHANGED <<backend, file_path, file_type, prefix, node_num, core_num,
                   file_paths, names, header, usecols, cols, missing, dtype,
                   squeeze, index_col, result, err>>

\* line 152: len(set(names)) != len(names)
HasDuplicates(l) == Cardinality(Range(l)) # Len(l)

\* RenameColumns that validates names but keeps the loaded column names
RenameColumns_Kept(schema, l) == schema

\* lines 160-162: the k-th column renamed to the k-th name
RenameColumns(schema, l) ==
    [k \in 1..(IF Len(l) < Len(schema) THEN Len(l) ELSE Len(schema)) |->
        Field(l[k], schema[k].type)]

\* lines 151-162
ApplyNames ==
    /\ pc = "names"
    /\ \E n \in (IF names = Unread THEN NamesArgs ELSE {names}) :
          /\ names' = n
          /\ IF n.t # "list"
             THEN pc' = "usecols" /\ UNCHANGED <<df, calls, err>>
             ELSE IF HasDuplicates(n.l)
             THEN Raise(Error("DuplicateNames", <<>>, <<>>)) /\ UNCHANGED <<df, calls>>
             ELSE IF Len(n.l) # Len(df.schema)
             THEN /\ Raise(Error("NamesCount", <<Len(n.l), Len(df.schema)>>, <<>>))
                  /\ UNCHANGED <<df, calls>>
             ELSE /\ df' = [df EXCEPT !.schema = RenameColumns(df.schema, n.l)]
                  /\ calls' = Append(calls, "selectExpr")
                  /\ pc' = "usecols"
                  /\ err' = err
    /\ UNCHANGED <<backend, file_path, file_type, prefix, node_num, core_num,
                   file_paths, kwargs, header, usecols, cols, missing, dtype,
                   squeeze, index_col, result>>

\* schema[col] of a Python list: a negative col counts from the end
PyItem(schema, col) ==
    IF col >= 0 THEN schema[col + 1] ELSE schema[Len(schema) + col + 1]

\* line 167: the columns a callable accepts
CallableCols(schema, acc) ==
    SelectSeq(ColNames(schema), LAMBDA c : c \in acc)

\* line 170: the columns whose position is in usecols
PositionCols(schema, ints) ==
    SelectIdx(ColNames(schema), {k \in 1..Len(schema) : (k - 1) \in Range(ints)})

\* lines 171-175: the positions reported as missing
PositionMissing(schema, ints, cs) ==
    SelectSeq(ints, LAMBDA c :
        c >= Len(schema) \/ PyItem(schema, c).name \notin Range(cs))

\* line 174 raises IndexError for a position below -len(df.schema)
PositionOutOfRange(schema, ints) ==
    \E k \in 1..Len(ints) : ints[k] < Len(schema) /\ ints[k] < -Len(schema)

\* line 177: the columns whose name is in usecols
LabelCols(schema, strs) ==
    SelectSeq(ColNames(schema), LAMBDA c : c \in Range(strs))

\* line 178: the names reported as missing
LabelMissing(strs, cs) ==
    SelectSeq(strs, LAMBDA c : c \notin Range(cs))

\* lines 163-186: usecols resolved to column names, or rejected
UsecolsResolve ==
    /\ pc = "usecols"
    /\ \E u \in UsecolsArgs :
          /\ usecols' = u
          /\ CASE u.t = "none" ->
                    pc' = "dtype" /\ UNCHANGED <<cols, missing, err>>
               [] u.t = "callable" ->
                    /\ cols' = CallableCols(df.schema, u.acc)
                    /\ missing' = NoMissing
                    /\ pc' = "select"
                    /\ err' = err
               [] u.t = "list" /\ u.strs = <<>> ->
                    IF PositionOutOfRange(df.schema, u.ints)
                    THEN /\ Raise(Error("IndexError", <<>>, <<>>))
                         /\ cols' = PositionCols(df.schema, u.ints)
                         /\ missing' = missing
                    ELSE LET cs == PositionCols(df.schema, u.ints)
                             ms == PositionMissing(df.schema, u.ints, cs)
                         IN /\ cols' = cs
                            /\ missing' = [ints |-> ms, strs |-> <<>>]
                            /\ IF Len(ms) > 0
                               THEN Raise(Error("UsecolsMissing", ms, <<>>))
                               ELSE pc' = "select" /\ err' = err
               [] u.t = "list" /\ u.strs # <<>> /\ u.ints = <<>> ->
                    LET cs == LabelCols(df.schema, u.strs)
                        ms == LabelMissing(u.strs, cs)
                    IN /\ cols' = cs
                       /\ missing' = [ints |-> <<>>, strs |-> ms]
                       /\ IF Len(ms) > 0
                          THEN Raise(Error("UsecolsMissing", <<>>, ms))
                          ELSE pc' = "select" /\ err' = err
               [] OTHER ->
                    /\ Raise(Error("UsecolsType", <<>>, <<>>))
                    /\ UNCHANGED <<cols, missing>>
    /\ UNCHANGED <<backend, file_path, file_type, prefix, node_num, core_num,
                   file_paths, kwargs, names, header, dtype, squeeze, index_col, df,
                   calls, result>>

\* ShouldSelect without the guard: df.select(cols) runs for an empty cols too
ShouldSelect_Always(cs) == TRUE

\* line 187: len(cols) > 0
ShouldSelect(cs) == Len(cs) > 0

\* line 188: df.select(cols)
SelectColumns(schema, cs) ==
    [k \in 1..Len(cs) |->
        schema[CHOOSE j \in 1..Len(schema) : schema[j].name = cs[k]]]

\* lines 187-188
UsecolsSelect ==
    /\ pc = "select"
    /\ IF ShouldSelect(cols)
       THEN /\ df' = [df EXCEPT !.schema = SelectColumns(df.schema, cols)]
            /\ calls' = Append(calls, "select")
       ELSE UNCHANGED <<df, calls>>
    /\ pc' = "dtype"
    /\ UNCHANGED <<backend, file_path, file_type, prefix, node_num, core_num,
                   file_paths, kwargs, names, header, usecols, cols, missing, dtype,
                   squeeze, index_col, result, err>>

\* CastItems that casts every column, named in the dict or not
CastItems_EveryColumn(schema, items) ==
    IF items = {} THEN schema
    ELSE [k \in 1..Len(schema) |->
            [name |-> schema[k].name, type |-> (CHOOSE it \in items : TRUE).type]]

\* lines 191-192: df.withColumn(col, df[col].astype(type)) for every item
CastItems(schema, items) ==
    [k \in 1..Len(schema) |->
        IF \E it \in items : it.col = schema[k].name
        THEN Field(schema[k].name,
                   (CHOOSE it \in items : it.col = schema[k].name).type)
        ELSE schema[k]]

\* lines 194-195: every column cast to the one type
CastAll(schema, ty) == [k \in 1..Len(schema) |-> Field(schema[k].name, ty)]

\* lines 189-195; df[col] of a column that df does not have is an error
ApplyDtype ==
    /\ pc = "dtype"
    /\ \E d \in DtypeArgs :
          /\ dtype' = d
          /\ CASE d.t = "dict" ->
                    IF \E it \in d.items : it.col \notin Range(ColNames(df.schema))
                    THEN /\ Raise(Error("DtypeColumn", <<>>, <<>>))
                         /\ UNCHANGED <<df, calls>>
                    ELSE /\ df' = [df EXCEPT !.schema = CastItems(df.schema, d.items)]
                         /\ calls' = IF d.items = {} THEN calls
                                     ELSE Append(calls, "withColumn")
                         /\ pc' = "repartition"
                         /\ err' = err
               [] d.t = "single" ->
                    /\ df' = [df EXCEPT !.schema = CastAll(df.schema, d.single)]
                    /\ calls' = Append(calls, "withColumn")
                    /\ pc' = "repartition"
                    /\ err' = err
               [] OTHER ->
                    pc' = "repartition" /\ UNCHANGED <<df, calls, err>>
    /\ UNCHANGED <<backend, file_path, file_type, prefix, node_num, core_num,
                   file_paths, kwargs, names, header, usecols, cols, missing,
                   squeeze, index_col, result>>

\* Repartitioned that never repartitions
Repartitioned_Never(parts, nodes) == parts

\* lines 197-198: the partition count after the repartition test
Repartitioned(parts, nodes) == IF parts < nodes THEN nodes ELSE parts

\* lines 197-198
Repartition ==
    /\ pc = "repartition"
    /\ df' = [df EXCEPT !.parts = Repartitioned(df.parts, node_num)]
    /\ calls' = IF df.parts < node_num THEN Append(calls, "repartition") ELSE calls
    /\ pc' = "to_pandas"
    /\ UNCHANGED <<backend, file_path, file_type, prefix, node_num, core_num,
                   file_paths, kwargs, names, header, usecols, cols, missing, dtype,
                   squeeze, index_col, result, err>>

\* line 207: if index_col
IndexColGiven(ic) == Truthy(ic)

\* lines 200-211: the frame f builds from one partition; its column types
\* are taken to be the engine's.  pandas rejects set_index on a Series and
\* set_index with a label that is no column; the rejection surfaces when the
\* partition is computed.
to_pandas(columns, types, sq, ic) ==
    LET squeezed == Truthy(sq) /\ Len(columns) = 1
    IN IF ~IndexColGiven(ic)
       THEN [kind |-> IF squeezed THEN "series" ELSE "frame",
             columns |-> columns, types |-> types, index |-> "RangeIndex"]
       ELSE IF ~squeezed /\ ic.t = "str" /\ ic.s \in Range(columns)
       THEN LET keep == {k \in 1..Len(columns) : columns[k] # ic.s}
            IN [kind |-> "frame", columns |-> SelectIdx(columns, keep),
                types |-> SelectIdx(types, keep), index |-> ic.s]
       ELSE [kind |-> "error", columns |-> <<>>, types |-> <<>>, index |-> ""]

\* lines 109-114 and 200-216: the partitions mapped to frames and wrapped
ToPandas ==
    /\ pc = "to_pandas"
    /\ \E sq \in FlagArgs, ic \in IndexColArgs :
          /\ squeeze' = IF sq = Absent THEN PyBool(FALSE) ELSE sq
          /\ index_col' = IF ic = Absent THEN PyNone ELSE ic
          /\ result' = [kind |-> "shards", parts |-> df.parts, loader |-> "to_pandas",
                        frame |-> to_pandas(ColNames(df.schema),
                                            [k \in 1..Len(df.schema) |-> df.schema[k].type],
                                            squeeze', index_col')]
    /\ calls' = Append(calls, "mapPartitions")
    /\ pc' = "done"
    /\ UNCHANGED <<backend, file_path, file_type, prefix, node_num, core_num,
                   file_paths, kwargs, names, header, usecols, cols, missing, dtype,
                   df, err>>

-----------------------------------------------------------------------------

Next ==
    \/ read_csv
    \/ read_json
    \/ InitContext
    \/ ResolvePaths
    \/ PandasBackend
    \/ SparkValidate
    \/ CsvGetHeader
    \/ CsvHeaderFlag
    \/ CsvQuoteComment
    \/ ReadCsvFiles
    \/ ReadJsonFiles
    \/ ApplyNames
    \/ UsecolsResolve
    \/ UsecolsSelect
    \/ ApplyDtype
    \/ Repartition
    \/ ToPandas

Spec == Init /\ [][Next]_vars

-----------------------------------------------------------------------------
(* Properties.                                                             *)

SparkOps ==
    {"parallelize", "mapPartitions", "read.csv", "read.json", "selectExpr",
     "select", "withColumn", "repartition"}
ReaderCalled == Called("read.csv") \/ Called("read.json")
AfterSelect == {"dtype", "repartition", "to_pandas", "done"}
UsecolsErrors == {"UsecolsMissing", "UsecolsType", "IndexError"}

\* C1: whenever the path resolver has returned an empty file list, the call
\* has raised the invalid-path error, no sharded collection is returned, and
\* no parallelize, engine reader or partition transform has been called.
C1_EmptyResolutionRaises ==
    (Called("extract_one_path") /\ file_paths = <<>>) =>
        /\ pc = "error"
        /\ err.kind = "InvalidPath"
        /\ result = NoResult
        /\ \A k \in 1..Len(calls) : calls[k] \notin SparkOps

C1_Witness ==
    /\ pc = "error"
    /\ err.kind = "InvalidPath"
    /\ file_path = [t |-> "str", l |-> <<NoMatch>>]
    /\ backend = "spark"
    /\ file_type = "json"

\* C2: a call given a non-empty list of paths resolves each path and goes on
\* with the concatenation of the per-path results; it does not fail merely
\* because file_path is a list.
C2_ListPathResolved ==
    (file_path.t = "list" /\ file_path.l # <<>> /\ pc \notin {"idle", "start"}) =>
        /\ Called("extract_one_path")
        /\ file_paths = ExtractAll(file_path.l, file_type)
        /\ err.kind # "AttributeError"

\* C3: in the Spark backend with names a list: duplicate names raise; else a
\* length that differs from the loaded column count raises, reporting both
\* counts; otherwise the columns are exactly names, in order, right after the
\* renaming and as long as no column selection narrows them.  No sharded
\* collection is returned in the two error cases.
C3_NamesList ==
    (backend = "spark" /\ names.t = "list" /\ pc \notin {"csv_flag", "csv_quote", "read_csv", "names"}
        /\ err.kind \notin {"UnknownHeader", "CommentLength"}) =>
        IF \E i, j \in 1..Len(names.l) : i < j /\ names.l[i] = names.l[j]
        THEN pc = "error" /\ err.kind = "DuplicateNames" /\ result = NoResult
        ELSE IF Len(names.l) # NumCols
        THEN /\ pc = "error"
             /\ err = Error("NamesCount", <<Len(names.l), Len(df.schema)>>, <<>>)
             /\ Len(df.schema) = NumCols
             /\ result = NoResult
        ELSE /\ err.kind \notin {"DuplicateNames", "NamesCount"}
             /\ (pc \in {"usecols", "select"} => ColNames(df.schema) = names.l)
             /\ (pc \in AfterSelect /\ (usecols.t = "none" \/ cols = <<>>) =>
                    ColNames(df.schema) = names.l)
             /\ (pc = "done" /\ usecols.t = "none" /\ result.frame.index = "RangeIndex" =>
                    result.frame.columns = names.l)

C3_Witness ==
    /\ pc = "done"
    /\ names.t = "list"
    /\ names.l # NewNames
    /\ usecols.t = "none"
    /\ result.frame.columns = names.l

\* entries of a usecols list that name no column of schema
UnresolvedPositions(schema, ints) ==
    {c \in Range(ints) : c < 0 \/ c > Len(schema) - 1}
UnresolvedLabels(schema, strs) ==
    {c \in Range(strs) : c \notin Range(ColNames(schema))}
\* the requested columns, in schema order
RequestedByPosition(schema, ints) ==
    SelectIdx(ColNames(schema),
              {k \in 1..Len(schema) : \E c \in Range(ints) : c = k - 1})
RequestedByLabel(schema, strs) ==
    SelectIdx(ColNames(schema),
              {k \in 1..Len(schema) : \E c \in Range(strs) : c = schema[k].name})

\* the statement of C4 for the usecols lists that satisfy Covered
C4_Statement(Covered) ==
    (backend = "spark" /\ usecols.t = "list" /\ Covered
        /\ (usecols.ints # <<>> \/ usecols.strs # <<>>)) =>
        /\ (usecols.ints # <<>> /\ usecols.strs # <<>>) =>
               pc = "error" /\ err.kind = "UsecolsType"
        /\ (usecols.strs = <<>> /\ pc = "select") =>
               /\ UnresolvedPositions(df.schema, usecols.ints) = {}
               /\ cols = RequestedByPosition(df.schema, usecols.ints)
        /\ (usecols.strs = <<>> /\ pc = "error" /\ err.kind \in UsecolsErrors) =>
               /\ err.kind = "UsecolsMissing"
               /\ Range(err.ints) = UnresolvedPositions(df.schema, usecols.ints)
               /\ Range(err.ints) # {}
        /\ (usecols.ints = <<>> /\ pc = "select") =>
               /\ UnresolvedLabels(df.schema, usecols.strs) = {}
               /\ cols = RequestedByLabel(df.schema, usecols.strs)
        /\ (usecols.ints = <<>> /\ pc = "error" /\ err.kind \in UsecolsErrors) =>
               /\ err.kind = "UsecolsMissing"
               /\ Range(err.strs) = UnresolvedLabels(df.schema, usecols.strs)
               /\ Range(err.strs) # {}
        /\ (pc \in AfterSelect =>
               ColNames(df.schema) = cols /\ cols # <<>> /\ Called("select"))

\* C4: in the Spark backend, a non-empty usecols list of positions or of names
\* whose entries all resolve yields exactly the requested columns in schema
\* order; an entry that does not resolve (an unknown name, a position outside
\* 0..columnCount-1) raises an error listing exactly the unresolved entries; a
\* list mixing positions and names raises.
C4_UsecolsList == C4_Statement(TRUE)

\* What holds of the code: C4 for the lists without a negative position.
C4_NonNegativePositions ==
    C4_Statement(\A k \in 1..Len(usecols.ints) : usecols.ints[k] >= 0)

\* C5: in the Spark backend, whenever index_col is given (anything but None,
\* position or label 0 included) and names a column, every returned frame has
\* that column as its index; when it is not given the index is the default.
C5_IndexColPromoted ==
    (pc = "done" /\ backend = "spark"
        /\ ~(Truthy(squeeze) /\ Len(df.schema) = 1)) =>
        IF index_col = PyNone
        THEN result.frame.index = "RangeIndex"
                /\ result.frame.columns = ColNames(df.schema)
        ELSE LET named ==
                    IF index_col.t = "int"
                    THEN {df.schema[k].name : k \in {index_col.i + 1} \cap (1..Len(df.schema))}
                    ELSE {index_col.s} \cap Range(ColNames(df.schema))
             IN \A c \in named :
                    /\ result.frame.kind = "frame"
                    /\ result.frame.index = c
                    /\ c \notin Range(result.frame.columns)

\* What holds of the code: C5 for an index_col that is None or a non-empty
\* column label.
C5_LabelIndexCol ==
    (index_col = PyNone \/ (index_col.t = "str" /\ index_col.s # "")) =>
        C5_IndexColPromoted

\* the statement of C6, where IsZero says which header values count as 0
C6_Statement(IsZero(_)) ==
    /\ pc = "csv_flag" =>
          /\ IsZero(header) =>
                pc' = "csv_quote" /\ kwargs'.header = PyBool(TRUE)
          /\ header = PyNone =>
                pc' = "csv_quote" /\ kwargs'.header = PyBool(FALSE)
          /\ header = PyStr("infer") =>
                pc' = "csv_quote" /\ kwargs'.header = PyBool(names.t = "none")
          /\ (~IsZero(header) /\ header \notin {PyNone, PyStr("infer")}) =>
                /\ pc' = "error"
                /\ err'.kind = "UnknownHeader"
                /\ ~ReaderCalled'
    /\ (pc = "read_csv" /\ kwargs.header = PyBool(FALSE)) =>
          /\ Len(df'.schema) = NumCols
          /\ \A k \in 1..NumCols : df'.schema[k].name = IntStr(k - 1)

\* C6: for csv in the Spark backend, header=0 gives the engine flag true,
\* header=None gives false, header="infer" gives true without names and false
\* with names, every other header value raises the unknown-header error before
\* the reader is called; when the flag is false the loaded columns are renamed
\* to their zero-based positions.
C6_HeaderTranslation == [][C6_Statement(LAMBDA h : h = PyInt(0))]_vars

\* What holds of the code: C6 with every value that Python's == equates with
\* 0 (False among them) treated as header=0.
C6_HeaderEqualToZero == [][C6_Statement(LAMBDA h : PyEq(h, PyInt(0)))]_vars

OptionErrors == {"MangleDupeCols", "ParseDates", "UnknownHeader", "CommentLength"}

C9_Repartition ==
    /\ [][pc = "repartition" =>
            /\ df.parts < node_num => df'.parts = node_num
            /\ df.parts >= node_num => df'.parts = df.parts
            /\ df'.schema = df.schema]_vars
    /\ [](pc = "done" /\ backend = "spark" =>
            result.parts >= node_num /\ result.parts = df.parts)

C9_Witness ==
    /\ pc = "done"
    /\ backend = "spark"
    /\ Called("repartition")
    /\ node_num = 2
    /\ result.parts = 2

\* C10: in the Spark backend a usecols that is given and resolves to no
\* column without any entry missing (an empty list, a callable that accepts
\* no name) raises no error and selects nothing: all loaded columns remain.
C10_EmptyUsecolsKeepsAll ==
    /\ [](backend = "spark" /\ usecols.t \in {"list", "callable"}
            /\ (usecols = UsecolsArg("list", <<>>, <<>>, {})
                  \/ (usecols.t = "callable"
                        /\ usecols.acc \cap Range(ColNames(df.schema)) = {})) =>
              /\ err.kind \notin UsecolsErrors
              /\ cols = <<>>
              /\ ~Called("select")
              /\ Len(df.schema) = NumCols)
    /\ [][(pc = "select" /\ cols = <<>>) => (pc' = "dtype" /\ df' = df)]_vars

C10_Witness ==
    /\ pc = "done"
    /\ usecols = UsecolsArg("callable", <<>>, <<>>, {})
    /\ names.t = "none"
    /\ result.frame.columns = FileColumns

====
